---- MODULE Spec2Model ----
(***************************************************************************)
(* Model of the inventory costing engine of obrasstock                     *)
(* (django/app/inventario/models.py): aplicar_movimiento_promedio,         *)
(* aplicar_traspaso, the Existencia / Kardex / Movimiento / Traspaso       *)
(* tables and the row locks taken by select_for_update().                  *)
(*                                                                         *)
(* Quantities are whole units.  Costs are DecimalField(decimal_places=6)   *)
(* values, held as integers counted in millionths (Scale per unit).        *)
(* An optional (null=True) cost is <<>> when NULL and <<v>> when set.      *)
(***************************************************************************)
EXTENDS Integers, Sequences, FiniteSets, TLC

\* ---------------------------------------------------------------- bounds
MaxMovimientos == 2      \* movements persisted by callers
MaxTraspasos == 1        \* transfers persisted by callers
MaxLlamadas == 3         \* calls of the engine that start a transaction
MaxCant == 1             \* largest line quantity of a concurrent run
MaxLineas == 2           \* most detalles of one document
MaxMovCosteo == 3        \* movements persisted in a sequential costing run
MaxCantCosteo == 2       \* largest line quantity of a sequential costing run
MaxMovTraspaso == 1      \* receipts that stock the source before a transfer
MaxTraspCruzados == 2    \* transfers persisted in a run of crossing transfers
MaxConsecutivos == 4     \* calls of next_consecutivo
MaxLlamadasReintento == 4  \* calls of the engine in a run with retries

\* ------------------------------------------------------- program constants
Scale == 1000000         \* decimal_places=6: one unit of cost in millionths

Procs == {"p1", "p2"}
Proyectos == {"t1"}
Materiales == {"m1"}
Almacenes == {"a1", "a2"}
TIPO_CHOICES == {"ENTRADA", "SALIDA", "AJUSTE"}
Costos == {<<>>, <<0>>, <<Scale>>}
\* Consecutivo keys: (project, nombre)
\* Consecutivo.project is null=True: next_consecutivo is also called with None
SinProyecto == "None"
ClavesConsecutivo == {"t1", SinProyecto} \X {"nota_pedido", "otro"}

VARIABLES
    allowNeg,       \* settings.ALLOW_STOCK_NEGATIVE
    existencia,     \* committed Existencia rows: key -> [stock, costo_promedio]
    kardex,         \* committed Kardex rows (a set of records, each with its id)
    movimientos,    \* committed Movimiento rows with their detalles: id -> row
    traspasos,      \* committed Traspaso rows with their detalles: id -> row
    nextMov,        \* AUTO_INCREMENT of Movimiento (also the creation clock)
    nextKdx,        \* AUTO_INCREMENT of Kardex
    llamadas,       \* number of transactions started so far
    cupo,           \* the bounds of this run: [mov, trasp, llamadas]
    obj,            \* per caller: the in-memory model instance it holds
    pc,             \* per caller: position in the engine
    leg,            \* per caller: which call the loop runs for
    cur,            \* per caller: id of the movement whose detalles are looped
    idx,            \* per caller: next detalle of the loop
    txEx,           \* per caller: uncommitted Existencia rows (all locked)
    txKdx,          \* per caller: uncommitted Kardex rows
    txMov,          \* per caller: uncommitted Movimiento rows
    resultado,      \* per caller: how its last call ended
    consecutivo,    \* committed Consecutivo rows: a set of [id, key, valor]
    cTx,            \* per caller: the Consecutivo row it has locked or inserted
    devueltos       \* the values next_consecutivo has returned, in order

vars == <<allowNeg, existencia, kardex, movimientos, traspasos, nextMov, nextKdx,
          llamadas, cupo, obj, pc, leg, cur, idx, txEx, txKdx, txMov, resultado,
          consecutivo, cTx, devueltos>>

\* The sequence generator's state, and the costing engine's
cons == <<consecutivo, cTx, devueltos>>
motor == <<allowNeg, existencia, kardex, movimientos, traspasos, nextMov, nextKdx,
           llamadas, cupo, obj, pc, leg, cur, idx, txEx, txKdx, txMov, resultado>>

db == <<existencia, kardex, movimientos, traspasos>>

\* ----------------------------------------------------------- pure helpers
Empty == [x \in {} |-> 0]

NoObj == [kind |-> "none", id |-> 0, aplicado |-> FALSE]

\* How a call ended: the outcome and the detalle reached
Ninguno == [res |-> "ninguno", linea |-> 0]
Fin(res, linea) == [res |-> res, linea |-> linea]

\* `x or Decimal("0")` on an optional Decimal
OrZero(c) == IF c = <<>> THEN 0 ELSE c[1]

\* Mutant: only None is false, an explicit zero counts as a cost
TruthyNoNulo(c) == c # <<>>

\* Python truth value of an optional Decimal: None and Decimal(0) are false
Truthy(c) == c # <<>> /\ c[1] # 0

\* Mutant: the quotient is truncated instead of rounded
QuantizeTrunca(num, den) == num \div den

\* A Decimal quotient as the 6-decimal column keeps it: num/den in millionths,
\* rounded half-even
Quantize(num, den) ==
    LET q == num \div den
        r == num % den
    IN  IF 2 * r < den THEN q
        ELSE IF 2 * r > den THEN q + 1
        ELSE IF q % 2 = 0 THEN q ELSE q + 1

\* Existencia defaults: stock 0, costo_promedio 0
FilaNueva == [stock |-> 0, costo_promedio |-> 0]

\* Mutant: every movement is keyed as if it belonged to project t1
KeySinProyecto(mov, det) == <<"t1", det.material, mov.almacen>>

Key(mov, det) == <<mov.project, det.material, mov.almacen>>

\* Mutant: the guard of line 92 is forgotten
YaAplicadoOlvidado(o) == FALSE

\* Mutant: the guard of line 167 is forgotten, only movements are guarded
YaAplicadoSoloMovimiento(o) == o.kind = "mov" /\ o.aplicado

\* line 92 / line 167: the guard on the instance handed to the engine
YaAplicado(o) == o.aplicado

\* Mutant: an AJUSTE is never turned into a receipt
TipoEfectivoSinAjuste(tipo, cant, costo_unitario) == tipo

\* lines 109-115
TipoEfectivo(tipo, cant, costo_unitario) ==
    IF tipo = "AJUSTE" /\ cant > 0 THEN "ENTRADA" ELSE tipo

\* lines 107, 110-111
CostoIn(tipo, cant, costo_unitario, cp) ==
    IF tipo = "AJUSTE" /\ cant > 0 /\ ~Truthy(costo_unitario)
    THEN cp
    ELSE OrZero(costo_unitario)

\* Mutant: the issue branch adds like the receipt branch
NuevoStockSuma(tipo_efectivo, st, cant) == st + cant

\* Mutant: a receipt is booked twice
NuevoStockDoble(tipo_efectivo, st, cant) ==
    IF tipo_efectivo = "ENTRADA" THEN st + 2 * cant ELSE st - cant

\* Mutant: the receipt branch leaves the stock as it was
NuevoStockSinEntrada(tipo_efectivo, st, cant) ==
    IF tipo_efectivo = "ENTRADA" THEN st ELSE st - cant

\* lines 118, 137
NuevoStock(tipo_efectivo, st, cant) ==
    IF tipo_efectivo = "ENTRADA" THEN st + cant ELSE st - cant

\* Mutant: the incoming cost replaces the average instead of entering it
NuevoCpUltimoCosto(st, cp, cant, costo_in) == IF st + cant > 0 THEN costo_in ELSE cp

\* line 119, as stored in the 6-decimal column
NuevoCp(st, cp, cant, costo_in) ==
    IF st + cant > 0 THEN Quantize(st * cp + cant * costo_in, st + cant) ELSE cp

\* Mutant: the setting is read the wrong way round
StockInsuficienteInvertido(nuevo_stock, allow) == nuevo_stock < 0 /\ allow

\* Mutant: the setting is not consulted
StockInsuficienteSiempre(nuevo_stock, allow) == nuevo_stock < 0

\* line 138
StockInsuficiente(nuevo_stock, allow) == nuevo_stock < 0 /\ ~allow

\* ------------------------------------------------- reads inside a transaction
\* A Movimiento row as caller p's transaction sees it
MovRow(p, id) == IF id \in DOMAIN txMov[p] THEN txMov[p][id] ELSE movimientos[id]

\* Mutant: the rows are fetched without select_for_update()
HeldByOtherSinCandado(p, k) == FALSE

\* Row locks: a caller holds the lock of every Existencia key it has fetched
\* with select_for_update() until its transaction ends
HeldByOther(p, k) == \E q \in Procs \ {p} : k \in DOMAIN txEx[q]

\* get_or_create / get of an Existencia row: own writes, else the committed
\* row, else the defaults of a row created now
Leer(p, k) ==
    IF k \in DOMAIN txEx[p] THEN txEx[p][k]
    ELSE IF k \in DOMAIN existencia THEN existencia[k]
    ELSE FilaNueva

\* Mutant: no atomic block, the rows saved before the exception stay
RetenidoSinAtomic(p) == [ex |-> txEx[p], kdx |-> txKdx[p], mov |-> Empty]

\* Mutant: the Kardex rows written before the failure survive it
RetenidoKardex(p) == [ex |-> Empty, kdx |-> txKdx[p], mov |-> Empty]

\* Mutant: the movements a transfer generated survive its failure
RetenidoMovimientos(p) == [ex |-> Empty, kdx |-> {}, mov |-> txMov[p]]

\* What the store keeps of caller p's transaction when an exception leaves
\* `with transaction.atomic()`: nothing
Retenido(p) == [ex |-> Empty, kdx |-> {}, mov |-> Empty]

\* The caller's frame once a call has returned or raised; the instance is
\* dropped with the request
Volver(p, res) ==
    /\ pc' = [pc EXCEPT ![p] = "idle"]
    /\ leg' = [leg EXCEPT ![p] = "none"]
    /\ cur' = [cur EXCEPT ![p] = 0]
    /\ idx' = [idx EXCEPT ![p] = 0]
    /\ txEx' = [txEx EXCEPT ![p] = Empty]
    /\ txKdx' = [txKdx EXCEPT ![p] = {}]
    /\ txMov' = [txMov EXCEPT ![p] = Empty]
    /\ obj' = [obj EXCEPT ![p] = NoObj]
    /\ resultado' = [resultado EXCEPT ![p] = Fin(res, idx[p])]

\* The end of the outermost atomic block: ex, kdx, mov reach the tables
Persistir(ex, kdx, mov) ==
    /\ existencia' = ex @@ existencia
    /\ kardex' = kardex \cup kdx
    /\ movimientos' = mov @@ movimientos

\* An exception propagates out of the atomic block (rollback) to the caller
Abortar(p, res) ==
    /\ Persistir(Retenido(p).ex, Retenido(p).kdx, Retenido(p).mov)
    /\ traspasos' = traspasos
    /\ Volver(p, res)

\* ------------------------------------------------------------ the callers
\* The caller persists a Movimiento with its detalles (MovimientoAdmin)
CrearMovimiento(t, tipo, a, dets) ==
    /\ nextMov <= cupo.mov
    /\ llamadas = 0
    /\ movimientos' = (nextMov :> [project |-> t, tipo |-> tipo, almacen |-> a,
                                   fecha |-> nextMov, referencia |-> <<>>,
                                   aplicado |-> FALSE, detalles |-> dets])
                      @@ movimientos
    /\ nextMov' = nextMov + 1
    /\ UNCHANGED cons
    /\ UNCHANGED <<allowNeg, cupo, existencia, kardex, traspasos, nextKdx, llamadas, obj,
                   pc, leg, cur, idx, txEx, txKdx, txMov, resultado>>

\* The caller persists a Traspaso with its detalles (TraspasoAdmin)
CrearTraspaso(t, ao, ad, dets) ==
    /\ Cardinality(DOMAIN traspasos) < cupo.trasp
    /\ llamadas = 0
    /\ traspasos' = (Cardinality(DOMAIN traspasos) + 1 :>
                        [project |-> t, almacen_origen |-> ao, almacen_destino |-> ad,
                         aplicado |-> FALSE, detalles |-> dets])
                    @@ traspasos
    /\ UNCHANGED cons
    /\ UNCHANGED <<allowNeg, cupo, existencia, kardex, movimientos, nextMov, nextKdx,
                   llamadas, obj, pc, leg, cur, idx, txEx, txKdx, txMov, resultado>>

\* The model instance a caller hands to the engine: the row as read from the
\* table when the call is made (form.instance in save_related)
Instancia(kind, id, row) == [kind |-> kind, id |-> id, aplicado |-> row.aplicado]

\* ------------------------------------------- aplicar_movimiento_promedio
\* lines 92-93: called with an instance whose aplicado is set: return
LlamarAplicado(p, o) ==
    /\ pc[p] = "idle"
    /\ YaAplicado(o)
    /\ resultado' = [resultado EXCEPT ![p] = Fin("noop", 0)]
    /\ UNCHANGED cons
    /\ UNCHANGED <<allowNeg, cupo, existencia, kardex, movimientos, traspasos, nextMov,
                   nextKdx, llamadas, obj, pc, leg, cur, idx, txEx, txKdx, txMov>>

\* lines 92-97: called with an instance whose aplicado is unset: open the
\* atomic block and start the loop over the detalles
LlamarMovimiento(p, o) ==
    /\ pc[p] = "idle"
    /\ o.kind = "mov"
    /\ ~YaAplicado(o)
    /\ llamadas < cupo.llamadas
    /\ llamadas' = llamadas + 1
    /\ obj' = [obj EXCEPT ![p] = o]
    /\ pc' = [pc EXCEPT ![p] = "detalles"]
    /\ leg' = [leg EXCEPT ![p] = "none"]
    /\ cur' = [cur EXCEPT ![p] = o.id]
    /\ idx' = [idx EXCEPT ![p] = 1]
    /\ resultado' = [resultado EXCEPT ![p] = Ninguno]
    /\ UNCHANGED cons
    /\ UNCHANGED <<allowNeg, cupo, existencia, kardex, movimientos, traspasos, nextMov,
                   nextKdx, txEx, txKdx, txMov>>

\* The Kardex row of one detalle (lines 122-135 and 142-155)
KardexRow(id, mov, movId, det, entrada, salida, costo, saldo, saldo_cp) ==
    [id |-> id, project |-> mov.project, movimiento |-> movId,
     material |-> det.material, almacen |-> mov.almacen, fecha |-> mov.fecha,
     tipo |-> mov.tipo, referencia |-> mov.referencia,
     cantidad_entrada |-> entrada, cantidad_salida |-> salida,
     costo_unitario |-> costo, saldo_stock |-> saldo,
     saldo_costo_promedio |-> saldo_cp]

\* lines 97-156: one pass of the loop, under the row lock of the key
Detalle(p) ==
    /\ pc[p] = "detalles"
    /\ idx[p] <= Len(MovRow(p, cur[p]).detalles)
    /\ LET mov == MovRow(p, cur[p])
           det == mov.detalles[idx[p]]
           k == Key(mov, det)
           fila == Leer(p, k)
           cp == fila.costo_promedio
           st == fila.stock
           cant == det.cantidad
           costo_in == CostoIn(mov.tipo, cant, det.costo_unitario, cp)
           tipo_efectivo == TipoEfectivo(mov.tipo, cant, det.costo_unitario)
           nuevo_stock == NuevoStock(tipo_efectivo, st, cant)
           nuevo_cp == NuevoCp(st, cp, cant, costo_in)
       IN  /\ ~HeldByOther(p, k)
           /\ IF tipo_efectivo = "ENTRADA"
              THEN /\ txEx' = [txEx EXCEPT ![p] =
                          (k :> [stock |-> nuevo_stock, costo_promedio |-> nuevo_cp]) @@ @]
                   /\ txKdx' = [txKdx EXCEPT ![p] = @ \cup
                          {KardexRow(nextKdx, mov, cur[p], det, cant, 0, costo_in,
                                     nuevo_stock, nuevo_cp)}]
                   /\ nextKdx' = nextKdx + 1
                   /\ idx' = [idx EXCEPT ![p] = @ + 1]
                   /\ UNCHANGED <<existencia, kardex, movimientos, traspasos, obj, pc,
                                  leg, cur, txMov, resultado>>
              ELSE IF StockInsuficiente(nuevo_stock, allowNeg)
              THEN /\ Abortar(p, "InsufficientStock")
                   /\ nextKdx' = nextKdx
              ELSE /\ txEx' = [txEx EXCEPT ![p] =
                          (k :> [stock |-> nuevo_stock, costo_promedio |-> cp]) @@ @]
                   /\ txKdx' = [txKdx EXCEPT ![p] = @ \cup
                          {KardexRow(nextKdx, mov, cur[p], det, 0, cant, cp,
                                     nuevo_stock, cp)}]
                   /\ nextKdx' = nextKdx + 1
                   /\ idx' = [idx EXCEPT ![p] = @ + 1]
                   /\ UNCHANGED <<existencia, kardex, movimientos, traspasos, obj, pc,
                                  leg, cur, txMov, resultado>>
    /\ UNCHANGED cons
    /\ UNCHANGED <<allowNeg, cupo, nextMov, llamadas>>

\* lines 157-158 and the end of the atomic block, for a direct call
FinMovimiento(p) ==
    /\ pc[p] = "detalles"
    /\ leg[p] = "none"
    /\ idx[p] > Len(MovRow(p, cur[p]).detalles)
    /\ Persistir(txEx[p], txKdx[p],
                 (cur[p] :> [MovRow(p, cur[p]) EXCEPT !.aplicado = TRUE]) @@ txMov[p])
    /\ traspasos' = traspasos
    /\ Volver(p, "ok")
    /\ UNCHANGED cons
    /\ UNCHANGED <<allowNeg, cupo, nextMov, nextKdx, llamadas>>

\* The backing store ends a lock wait with an error (deadlock victim or lock
\* wait timeout): the exception leaves the atomic block
FalloConcurrencia(p) ==
    /\ pc[p] = "detalles"
    /\ idx[p] <= Len(MovRow(p, cur[p]).detalles)
    /\ HeldByOther(p, Key(MovRow(p, cur[p]), MovRow(p, cur[p]).detalles[idx[p]]))
    /\ Abortar(p, "ConcurrencyFailure")
    /\ UNCHANGED cons
    /\ UNCHANGED <<allowNeg, cupo, nextMov, nextKdx, llamadas>>

\* ------------------------------------------------------- aplicar_traspaso
\* lines 167-186: open the atomic block, create the SALIDA movement of the
\* source warehouse with one detalle per line, and enter its loop
LlamarTraspaso(p, o) ==
    /\ pc[p] = "idle"
    /\ o.kind = "trasp"
    /\ ~YaAplicado(o)
    /\ llamadas < cupo.llamadas
    /\ llamadas' = llamadas + 1
    /\ obj' = [obj EXCEPT ![p] = o]
    /\ LET t == traspasos[o.id]
           mov_out == [project |-> t.project, tipo |-> "SALIDA",
                       almacen |-> t.almacen_origen, fecha |-> nextMov,
                       referencia |-> <<o.id>>, aplicado |-> FALSE,
                       detalles |-> [i \in DOMAIN t.detalles |->
                           [material |-> t.detalles[i].material,
                            cantidad |-> t.detalles[i].cantidad,
                            costo_unitario |-> <<>>]]]
       IN  txMov' = [txMov EXCEPT ![p] = (nextMov :> mov_out)]
    /\ nextMov' = nextMov + 1
    /\ pc' = [pc EXCEPT ![p] = "detalles"]
    /\ leg' = [leg EXCEPT ![p] = "salida"]
    /\ cur' = [cur EXCEPT ![p] = nextMov]
    /\ idx' = [idx EXCEPT ![p] = 1]
    /\ resultado' = [resultado EXCEPT ![p] = Ninguno]
    /\ UNCHANGED cons
    /\ UNCHANGED <<allowNeg, cupo, existencia, kardex, movimientos, traspasos, nextKdx,
                   txEx, txKdx>>

\* Mutant: `costo_unitario_destino or cp_origen`, an override of zero is lost
CostoDestTruthy(costo_unitario_destino, cp_origen) ==
    IF Truthy(costo_unitario_destino) THEN costo_unitario_destino ELSE <<cp_origen>>

\* line 206
CostoDest(costo_unitario_destino, cp_origen) ==
    IF costo_unitario_destino # <<>> THEN costo_unitario_destino ELSE <<cp_origen>>

\* lines 157-158 for mov_out, then lines 189-211: create the ENTRADA movement
\* of the destination, each detalle valued by CostoDest, and enter its loop
TraspasoEntrada(p) ==
    /\ pc[p] = "detalles"
    /\ leg[p] = "salida"
    /\ idx[p] > Len(MovRow(p, cur[p]).detalles)
    /\ LET t == traspasos[obj[p].id]
           cp_origen(d) == Leer(p, <<t.project, d.material, t.almacen_origen>>).costo_promedio
           mov_in == [project |-> t.project, tipo |-> "ENTRADA",
                      almacen |-> t.almacen_destino, fecha |-> nextMov,
                      referencia |-> <<obj[p].id>>, aplicado |-> FALSE,
                      detalles |-> [i \in DOMAIN t.detalles |->
                          [material |-> t.detalles[i].material,
                           cantidad |-> t.detalles[i].cantidad,
                           costo_unitario |->
                               CostoDest(t.detalles[i].costo_unitario_destino,
                                         cp_origen(t.detalles[i]))]]]
       IN  txMov' = [txMov EXCEPT ![p] =
                        (nextMov :> mov_in) @@
                        [@ EXCEPT ![cur[p]].aplicado = TRUE]]
    /\ nextMov' = nextMov + 1
    /\ leg' = [leg EXCEPT ![p] = "entrada"]
    /\ cur' = [cur EXCEPT ![p] = nextMov]
    /\ idx' = [idx EXCEPT ![p] = 1]
    /\ UNCHANGED cons
    /\ UNCHANGED <<allowNeg, cupo, existencia, kardex, movimientos, traspasos, nextKdx,
                   llamadas, obj, pc, txEx, txKdx, resultado>>

\* lines 157-158 for mov_in, lines 213-214 and the end of the atomic block
TraspasoFin(p) ==
    /\ pc[p] = "detalles"
    /\ leg[p] = "entrada"
    /\ idx[p] > Len(MovRow(p, cur[p]).detalles)
    /\ Persistir(txEx[p], txKdx[p], [txMov[p] EXCEPT ![cur[p]].aplicado = TRUE])
    /\ traspasos' = [traspasos EXCEPT ![obj[p].id].aplicado = TRUE]
    /\ Volver(p, "ok")
    /\ UNCHANGED cons
    /\ UNCHANGED <<allowNeg, cupo, nextMov, nextKdx, llamadas>>

\* ------------------------------------------------------ the specification
NoFrame == [p \in Procs |-> 0]

InitCon(c) ==
    /\ cupo = c
    /\ allowNeg \in BOOLEAN
    /\ existencia = Empty
    /\ kardex = {}
    /\ movimientos = Empty
    /\ traspasos = Empty
    /\ nextMov = 1
    /\ nextKdx = 1
    /\ llamadas = 0
    /\ obj = [p \in Procs |-> NoObj]
    /\ pc = [p \in Procs |-> "idle"]
    /\ leg = [p \in Procs |-> "none"]
    /\ cur = NoFrame
    /\ idx = NoFrame
    /\ txEx = [p \in Procs |-> Empty]
    /\ txKdx = [p \in Procs |-> {}]
    /\ txMov = [p \in Procs |-> Empty]
    /\ resultado = [p \in Procs |-> Ninguno]
    /\ consecutivo = {}
    /\ cTx = [p \in Procs |-> <<>>]
    /\ devueltos = <<>>

\* Sequences of 1..n elements of S
SeqsUpTo(S, n) == UNION {[1..m -> S] : m \in 1..n}


\* Documents the callers of this specification author
MovsSpec ==
    [project : Proyectos, tipo : TIPO_CHOICES, almacen : {"a1"},
     detalles : SeqsUpTo([material : Materiales, cantidad : 1..MaxCant,
                          costo_unitario : {<<Scale>>}], MaxLineas)]
TraspSpec ==
    [project : Proyectos, almacen_origen : Almacenes, almacen_destino : Almacenes,
     detalles : SeqsUpTo([material : Materiales, cantidad : 1..MaxCant,
                          costo_unitario_destino : {<<>>}], 1)]

Next ==
    \/ \E m \in MovsSpec : CrearMovimiento(m.project, m.tipo, m.almacen, m.detalles)
    \/ \E t \in TraspSpec :
          CrearTraspaso(t.project, t.almacen_origen, t.almacen_destino, t.detalles)
    \/ \E p \in Procs, id \in DOMAIN movimientos :
          LlamarAplicado(p, Instancia("mov", id, movimientos[id]))
    \/ \E p \in Procs, id \in DOMAIN traspasos :
          LlamarAplicado(p, Instancia("trasp", id, traspasos[id]))
    \/ \E p \in Procs, id \in DOMAIN movimientos :
          LlamarMovimiento(p, Instancia("mov", id, movimientos[id]))
    \/ \E p \in Procs, id \in DOMAIN traspasos :
          LlamarTraspaso(p, Instancia("trasp", id, traspasos[id]))
    \/ \E p \in Procs : Detalle(p)
    \/ \E p \in Procs : FinMovimiento(p)
    \/ \E p \in Procs : FalloConcurrencia(p)
    \/ \E p \in Procs : TraspasoEntrada(p)
    \/ \E p \in Procs : TraspasoFin(p)

Init == InitCon([mov |-> MaxMovimientos, trasp |-> MaxTraspasos,
                 llamadas |-> MaxLlamadas])

Spec == Init /\ [][Next]_vars

\* ------------------------------------ one caller, the whole range of a line
\* Single-line movements of every kind, quantity (zero included, which the
\* MinValueValidator(0) of line 40 accepts) and unit cost, on one key
MovsCosteo ==
    [project : Proyectos, tipo : TIPO_CHOICES, almacen : {"a1"},
     detalles : SeqsUpTo([material : Materiales, cantidad : 0..MaxCantCosteo,
                          costo_unitario : Costos], 1)]

InitCosteo == InitCon([mov |-> MaxMovCosteo, trasp |-> 0, llamadas |-> MaxMovCosteo])

NextCosteo ==
    \/ \E m \in MovsCosteo : CrearMovimiento(m.project, m.tipo, m.almacen, m.detalles)
    \/ \E id \in DOMAIN movimientos :
          LlamarAplicado("p1", Instancia("mov", id, movimientos[id]))
    \/ \E id \in DOMAIN movimientos :
          LlamarMovimiento("p1", Instancia("mov", id, movimientos[id]))
    \/ Detalle("p1")
    \/ FinMovimiento("p1")

SpecCosteo == InitCosteo /\ [][NextCosteo]_vars

\* ----------------------------------------------- the loop's locals, by caller
\* line 97: the caller is inside the loop with a detalle left to apply
EnDetalle(p) == pc[p] = "detalles" /\ idx[p] <= Len(MovRow(p, cur[p]).detalles)
\* line 97: det, and the movement it belongs to
MovDe(p) == MovRow(p, cur[p])
DetDe(p) == MovDe(p).detalles[idx[p]]
\* lines 99-105: existencia (st, cp) as fetched for det
KeyDe(p) == Key(MovDe(p), DetDe(p))
FilaDe(p) == Leer(p, KeyDe(p))
\* line 156: the pass of the loop completed, existencia.save() done
Paso(p) == EnDetalle(p) /\ idx'[p] = idx[p] + 1
\* line 139: the pass of the loop raised
Falla(p) == EnDetalle(p) /\ pc'[p] = "idle" /\ resultado'[p].res = "InsufficientStock"
\* lines 122, 142: the Kardex rows a step of caller p creates
FilasNuevas(p) == txKdx'[p] \ txKdx[p]
\* Kardex rows of a movement / of a key
FilasDeMov(id) == {r \in kardex : r.movimiento = id}
FilasDeKey(k) == {r \in kardex : <<r.project, r.material, r.almacen>> = k}

Abs(x) == IF x < 0 THEN -x ELSE x

\* ------------------------------------------------------------------ C1
\* C1: a call of aplicar_movimiento_promedio on a movement whose aplicado is
\* already true is a no-op: no transaction is opened for it, and the step that
\* returns leaves every Existencia row, the Kardex and all pending writes as
\* they were.
C1_AplicadoNoOp ==
    [][\A p \in Procs :
          /\ (resultado'[p].res = "noop" /\ resultado'[p] # resultado[p])
                => (db' = db /\ txEx' = txEx /\ txKdx' = txKdx /\ txMov' = txMov
                    /\ pc' = pc)
          /\ (pc[p] = "idle" /\ pc'[p] = "detalles" /\ leg'[p] = "none")
                => ~movimientos[cur'[p]].aplicado]_vars

\* A second call on an applied movement has returned, its one Kardex row per
\* line in place
C1_Witness ==
    \E p \in Procs :
        /\ resultado[p].res = "noop"
        /\ \A t \in DOMAIN traspasos : ~traspasos[t].aplicado
        /\ \E id \in DOMAIN movimientos :
              /\ movimientos[id].aplicado
              /\ Cardinality(FilasDeMov(id)) = Len(movimientos[id].detalles)

\* ------------------------------------------------------------------ C2
\* C2: under every interleaving a movement's lines are applied at most once:
\* the Kardex never holds more rows of a movement than the movement has lines.
C2_UnaSolaVez ==
    \A id \in DOMAIN movimientos :
        Cardinality(FilasDeMov(id)) <= Len(movimientos[id].detalles)

\* ------------------------------------------------------------------ C3
\* C3: when a line fails with InsufficientStock, the failing step leaves the
\* committed Existencia rows, Kardex and Movimiento/Traspaso rows (aplicado
\* included) unchanged and drops everything the transaction had written.
C3_FalloNoRetiene ==
    [][\A p \in Procs :
          (pc[p] = "detalles" /\ resultado'[p].res = "InsufficientStock")
             => (db' = db /\ txEx'[p] = Empty /\ txKdx'[p] = {} /\ txMov'[p] = Empty)]_vars

\* A call failed on its second line, after the first had changed a row
C3_Witness ==
    \E p \in Procs : resultado[p].res = "InsufficientStock" /\ resultado[p].linea > 1

\* ------------------------------------------------------------------ C5
\* C5: with ALLOW_STOCK_NEGATIVE false, no Existencia row, committed or
\* written inside a running transaction, has a negative stock.
C5_StockNoNegativo ==
    ~allowNeg =>
        /\ \A k \in DOMAIN existencia : existencia[k].stock >= 0
        /\ \A p \in Procs : \A k \in DOMAIN txEx[p] : txEx[p][k].stock >= 0

\* Stock was issued down to zero and a later issue was refused
C5_Witness ==
    /\ ~allowNeg
    /\ \E r \in kardex : r.cantidad_salida > 0 /\ r.saldo_stock = 0
    /\ \E p \in Procs : resultado[p].res = "InsufficientStock"

\* ------------------------------------------------------------------ C10
\* C10: every applied movement has exactly one Kardex row per line and every
\* unapplied movement has none.
C10_UnaFilaPorLinea ==
    \A id \in DOMAIN movimientos :
        Cardinality(FilasDeMov(id)) =
            IF movimientos[id].aplicado THEN Len(movimientos[id].detalles) ELSE 0

\* ------------------------------------------------------------------ C4
\* C4: a SALIDA line for more than the key's stock raises InsufficientStock
\* and leaves the tables alone when ALLOW_STOCK_NEGATIVE is false; when it is
\* true the line is applied, the stock becomes prior - cantidad (negative) and
\* the Kardex row written carries that negative saldo_stock.
C4_GuardaNegativo ==
    [][\A p \in Procs :
          (/\ EnDetalle(p)
           /\ idx'[p] # idx[p]
           /\ MovDe(p).tipo = "SALIDA"
           /\ DetDe(p).cantidad > FilaDe(p).stock)
          => IF allowNeg
             THEN /\ Paso(p)
                  /\ txEx'[p][KeyDe(p)].stock = FilaDe(p).stock - DetDe(p).cantidad
                  /\ txEx'[p][KeyDe(p)].stock < 0
                  /\ Cardinality(FilasNuevas(p)) = 1
                  /\ \A r \in FilasNuevas(p) :
                        /\ r.cantidad_salida = DetDe(p).cantidad
                        /\ r.saldo_stock = FilaDe(p).stock - DetDe(p).cantidad
             ELSE Falla(p) /\ db' = db]_vars

\* An issue beyond the stock was committed with its negative balance
C4_Witness ==
    /\ allowNeg
    /\ \E k \in DOMAIN existencia : existencia[k].stock < 0
    /\ \E r \in kardex : r.tipo = "SALIDA" /\ r.cantidad_salida > 0 /\ r.saldo_stock < 0

\* ------------------------------------------------------------------ C6
\* Sums over Kardex rows: quantities received, and quantity times unit cost
RECURSIVE SumaEntradas(_)
SumaEntradas(S) ==
    IF S = {} THEN 0
    ELSE LET r == CHOOSE x \in S : TRUE
         IN  r.cantidad_entrada + SumaEntradas(S \ {r})

RECURSIVE SumaValor(_)
SumaValor(S) ==
    IF S = {} THEN 0
    ELSE LET r == CHOOSE x \in S : TRUE
         IN  r.cantidad_entrada * r.costo_unitario + SumaValor(S \ {r})

\* The key has only ever been touched by ENTRADA lines that carry a unit cost
SoloEntradas(k) ==
    /\ FilasDeKey(k) # {}
    /\ \A r \in FilasDeKey(k) :
          /\ r.tipo = "ENTRADA"
          /\ \A i \in DOMAIN movimientos[r.movimiento].detalles :
                movimientos[r.movimiento].detalles[i].costo_unitario # <<>>

\* C6 as stated: after receipts (q_i, c_i) into an empty key the stock is the
\* sum of q_i and costo_promedio is exactly sum(q_i*c_i) / sum(q_i).
C6_PromedioExacto ==
    \A k \in DOMAIN existencia :
        SoloEntradas(k) =>
            /\ existencia[k].stock = SumaEntradas(FilasDeKey(k))
            /\ existencia[k].stock > 0 =>
                  existencia[k].costo_promedio * existencia[k].stock
                      = SumaValor(FilasDeKey(k))

\* C6 amended: the stock is the sum of q_i, and costo_promedio, stored with six
\* decimals after every receipt, is within n half-millionths of
\* sum(q_i*c_i) / sum(q_i) after n receipts (and is 0 while the stock is 0).
C6_PromedioRedondeado ==
    \A k \in DOMAIN existencia :
        SoloEntradas(k) =>
            /\ existencia[k].stock = SumaEntradas(FilasDeKey(k))
            /\ existencia[k].stock = 0 => existencia[k].costo_promedio = 0
            /\ 2 * Abs(existencia[k].costo_promedio * existencia[k].stock
                        - SumaValor(FilasDeKey(k)))
                  <= Cardinality(FilasDeKey(k)) * existencia[k].stock

\* Three receipts at different costs whose average is not a six-decimal number
C6_Witness ==
    \E k \in DOMAIN existencia :
        /\ SoloEntradas(k)
        /\ Cardinality(FilasDeKey(k)) = 3
        /\ existencia[k].costo_promedio * existencia[k].stock
              # SumaValor(FilasDeKey(k))

\* ------------------------------------------------------------------ C7
\* A receipt-like line: ENTRADA, or AJUSTE with a positive quantity
EsEntrada(p) ==
    \/ MovDe(p).tipo = "ENTRADA"
    \/ MovDe(p).tipo = "AJUSTE" /\ DetDe(p).cantidad > 0

\* The unit cost the line itself fixes, if it does
CostoFijado(p, costo) ==
    (/\ DetDe(p).costo_unitario # <<>>
     /\ (MovDe(p).tipo = "ENTRADA" \/ DetDe(p).costo_unitario[1] # 0))
    => costo = DetDe(p).costo_unitario[1]

\* What C7 says of a receipt-like line apart from the value of c'
EntradaSalvoCosto(p, r) ==
    /\ txEx'[p][KeyDe(p)].stock = FilaDe(p).stock + DetDe(p).cantidad
    /\ CostoFijado(p, r.costo_unitario)
    /\ r.cantidad_entrada = DetDe(p).cantidad
    /\ r.cantidad_salida = 0
    /\ r.saldo_stock = txEx'[p][KeyDe(p)].stock
    /\ r.saldo_costo_promedio = txEx'[p][KeyDe(p)].costo_promedio
    /\ txEx'[p][KeyDe(p)].stock <= 0 =>
          txEx'[p][KeyDe(p)].costo_promedio = FilaDe(p).costo_promedio

\* C7 as stated: q' = q + in_qty and, when q' > 0, c' is exactly
\* (q*c + in_qty*in_cost) / q'; the Kardex row carries in_qty, 0, in_cost, q', c'.
C7_EntradaExacta ==
    [][\A p \in Procs :
          (EnDetalle(p) /\ EsEntrada(p) /\ Paso(p)) =>
             /\ Cardinality(FilasNuevas(p)) = 1
             /\ \A r \in FilasNuevas(p) :
                   /\ EntradaSalvoCosto(p, r)
                   /\ txEx'[p][KeyDe(p)].stock > 0 =>
                         txEx'[p][KeyDe(p)].costo_promedio * txEx'[p][KeyDe(p)].stock
                            = FilaDe(p).stock * FilaDe(p).costo_promedio
                              + DetDe(p).cantidad * r.costo_unitario]_vars

\* C7 amended: as stated, except that when q' > 0 the stored c' is
\* (q*c + in_qty*in_cost) / q' rounded to the nearest millionth.
C7_EntradaRedondeada ==
    [][\A p \in Procs :
          (EnDetalle(p) /\ EsEntrada(p) /\ Paso(p)) =>
             /\ Cardinality(FilasNuevas(p)) = 1
             /\ \A r \in FilasNuevas(p) :
                   /\ EntradaSalvoCosto(p, r)
                   /\ txEx'[p][KeyDe(p)].stock > 0 =>
                         2 * Abs(txEx'[p][KeyDe(p)].costo_promedio
                                    * txEx'[p][KeyDe(p)].stock
                                 - (FilaDe(p).stock * FilaDe(p).costo_promedio
                                    + DetDe(p).cantidad * r.costo_unitario))
                            <= txEx'[p][KeyDe(p)].stock]_vars

\* A receipt brought the stock to three units at an average of one third
C7_Witness ==
    \E r \in kardex :
        /\ r.cantidad_entrada > 0
        /\ r.saldo_stock = 3
        /\ r.saldo_costo_promedio * 3 = Scale - 1

\* ------------------------------------------------------------------ C8
\* C8: a receipt-like line (ENTRADA, or AJUSTE, with a positive quantity) with
\* no unit cost is valued at the key's current costo_promedio: that is the
\* costo_unitario of its Kardex row, and costo_promedio does not change.
C8_CostoPorDefecto ==
    [][\A p \in Procs :
          (/\ EnDetalle(p)
           /\ EsEntrada(p)
           /\ DetDe(p).cantidad > 0
           /\ DetDe(p).costo_unitario = <<>>
           /\ Paso(p)) =>
             /\ txEx'[p][KeyDe(p)].costo_promedio = FilaDe(p).costo_promedio
             /\ \A r \in FilasNuevas(p) :
                   r.costo_unitario = FilaDe(p).costo_promedio]_vars

\* ------------------------------------------------------------------ C9
\* C9: a SALIDA line that succeeds leaves stock = q - out_qty and
\* costo_promedio = c, and writes one Kardex row with cantidad_entrada 0,
\* cantidad_salida out_qty, costo_unitario c, saldo_stock q - out_qty and
\* saldo_costo_promedio c.
C9_SalidaConservaCosto ==
    [][\A p \in Procs :
          (EnDetalle(p) /\ MovDe(p).tipo = "SALIDA" /\ Paso(p)) =>
             /\ txEx'[p][KeyDe(p)] =
                   [stock |-> FilaDe(p).stock - DetDe(p).cantidad,
                    costo_promedio |-> FilaDe(p).costo_promedio]
             /\ Cardinality(FilasNuevas(p)) = 1
             /\ \A r \in FilasNuevas(p) :
                   /\ r.cantidad_entrada = 0
                   /\ r.cantidad_salida = DetDe(p).cantidad
                   /\ r.costo_unitario = FilaDe(p).costo_promedio
                   /\ r.saldo_stock = FilaDe(p).stock - DetDe(p).cantidad
                   /\ r.saldo_costo_promedio = FilaDe(p).costo_promedio]_vars

\* An issue from a key with a non-zero average cost was committed
C9_Witness ==
    \E r \in kardex :
        /\ r.tipo = "SALIDA"
        /\ r.cantidad_salida > 0
        /\ r.costo_unitario > 0
        /\ r.saldo_costo_promedio = r.costo_unitario

\* ------------------------------------------------- reading the Kardex in order
\* Kardex.Meta.ordering = ["fecha", "id"]
Antes(a, b) == a.fecha < b.fecha \/ (a.fecha = b.fecha /\ a.id < b.id)
\* Insertion order: the AUTO_INCREMENT id
AntesId(a, b) == a.id < b.id

\* A receipt-like Kardex row (written by the branch of line 117)
EsFilaEntrada(r) ==
    r.tipo = "ENTRADA" \/ (r.tipo = "AJUSTE" /\ r.cantidad_entrada > 0)

\* ------------------------------------------------------------------ C12
\* C12: read in (fecha, id) order, the Kardex rows of every key carry a running
\* balance: each saldo_stock is the saldo_stock of the row before it (0 for the
\* first) plus cantidad_entrada minus cantidad_salida, and the last row's
\* saldo_stock and saldo_costo_promedio are those of the Existencia row.
C12_SaldoCorridoPorFecha ==
    \A k \in DOMAIN existencia :
        \A r \in FilasDeKey(k) :
            LET previas == {x \in FilasDeKey(k) : Antes(x, r)}
                siguientes == {x \in FilasDeKey(k) : Antes(r, x)}
                saldo_previo ==
                    IF previas = {} THEN 0
                    ELSE (CHOOSE x \in previas :
                             \A y \in previas \ {x} : Antes(y, x)).saldo_stock
            IN  /\ r.saldo_stock = saldo_previo + r.cantidad_entrada - r.cantidad_salida
                /\ siguientes = {} =>
                      /\ r.saldo_stock = existencia[k].stock
                      /\ r.saldo_costo_promedio = existencia[k].costo_promedio

\* ------------------------------------------------------------------ C14
\* C14: calls on movements that touch the same key are serialized by the row
\* lock.  No two open transactions hold writes of the same key, and the committed
\* rows of every key, read in the order they were inserted under the lock, are
\* what applying the lines one after another gives: each row continues the
\* balance and the average of the row before it, and the last row is the
\* Existencia row.
C14_SerializadoPorCandado ==
    /\ \A p \in Procs : \A q \in Procs \ {p} :
          DOMAIN txEx[p] \cap DOMAIN txEx[q] = {}
    /\ \A k \in DOMAIN existencia :
          /\ FilasDeKey(k) = {} => existencia[k] = FilaNueva
          /\ \A r \in FilasDeKey(k) :
                LET previas == {x \in FilasDeKey(k) : AntesId(x, r)}
                    siguientes == {x \in FilasDeKey(k) : AntesId(r, x)}
                    previa == IF previas = {}
                              THEN [saldo_stock |-> 0, saldo_costo_promedio |-> 0]
                              ELSE CHOOSE x \in previas :
                                      \A y \in previas \ {x} : AntesId(y, x)
                IN  /\ r.saldo_stock = previa.saldo_stock + r.cantidad_entrada
                                          - r.cantidad_salida
                    /\ r.saldo_costo_promedio =
                          IF EsFilaEntrada(r)
                          THEN NuevoCp(previa.saldo_stock, previa.saldo_costo_promedio,
                                       r.cantidad_entrada, r.costo_unitario)
                          ELSE previa.saldo_costo_promedio
                    /\ siguientes = {} =>
                          /\ r.saldo_stock = existencia[k].stock
                          /\ r.saldo_costo_promedio = existencia[k].costo_promedio

\* A call on one movement waits for the lock of a key that a call on another
\* movement holds with an uncommitted write
C14_Witness ==
    \E p \in Procs : \E q \in Procs \ {p} :
        /\ EnDetalle(p) /\ leg[p] = "none"
        /\ pc[q] = "detalles" /\ leg[q] = "none"
        /\ cur[q] # cur[p]
        /\ KeyDe(p) \in DOMAIN txEx[q]
        /\ txKdx[q] # {}

\* ------------------------------------------------- the admin's delete views
\* MovimientoAdmin offers the stock delete view and delete_selected action.
\* Kardex.movimiento and MovimientoDetalle.movimiento are on_delete=CASCADE, so
\* the Kardex rows of the movement go with it; no Existencia row is touched.
EliminarMovimiento(id) ==
    /\ \A p \in Procs : pc[p] = "idle"
    /\ movimientos' = [i \in DOMAIN movimientos \ {id} |-> movimientos[i]]
    /\ kardex' = kardex \ FilasDeMov(id)
    /\ UNCHANGED cons
    /\ UNCHANGED <<allowNeg, cupo, existencia, traspasos, nextMov, nextKdx, llamadas,
                   obj, pc, leg, cur, idx, txEx, txKdx, txMov, resultado>>

\* KardexAdmin makes every field read-only but leaves the delete view and the
\* delete_selected action in place
EliminarKardex(r) ==
    /\ \A p \in Procs : pc[p] = "idle"
    /\ kardex' = kardex \ {r}
    /\ UNCHANGED cons
    /\ UNCHANGED <<allowNeg, cupo, existencia, movimientos, traspasos, nextMov,
                   nextKdx, llamadas, obj, pc, leg, cur, idx, txEx, txKdx, txMov,
                   resultado>>

\* MovimientoAdmin's change view of an applied movement: the inline formset
\* saves a new MovimientoDetalle and save_related skips the engine
AgregarDetalle(id, det) ==
    /\ \A p \in Procs : pc[p] = "idle"
    /\ movimientos[id].aplicado
    /\ Len(movimientos[id].detalles) < MaxLineas
    /\ movimientos' = [movimientos EXCEPT ![id].detalles = Append(@, det)]
    /\ UNCHANGED cons
    /\ UNCHANGED <<allowNeg, cupo, existencia, kardex, traspasos, nextMov, nextKdx,
                   llamadas, obj, pc, leg, cur, idx, txEx, txKdx, txMov, resultado>>

\* ExistenciaAdmin is a plain ModelAdmin: its change view saves the stock and
\* costo_promedio the user typed
EditarExistencia(k, st, cp) ==
    /\ \A p \in Procs : pc[p] = "idle"
    /\ k \in DOMAIN existencia
    /\ existencia[k].stock # st \/ existencia[k].costo_promedio # cp
    /\ existencia' = [existencia EXCEPT ![k].stock = st, ![k].costo_promedio = cp]
    /\ UNCHANGED cons
    /\ UNCHANGED <<allowNeg, cupo, kardex, movimientos, traspasos, nextMov, nextKdx,
                   llamadas, obj, pc, leg, cur, idx, txEx, txKdx, txMov, resultado>>

\* ExistenciaAdmin's delete view and delete_selected action
EliminarExistencia(k) ==
    /\ \A p \in Procs : pc[p] = "idle"
    /\ k \in DOMAIN existencia
    /\ existencia' = [j \in DOMAIN existencia \ {k} |-> existencia[j]]
    /\ UNCHANGED cons
    /\ UNCHANGED <<allowNeg, cupo, kardex, movimientos, traspasos, nextMov, nextKdx,
                   llamadas, obj, pc, leg, cur, idx, txEx, txKdx, txMov, resultado>>

\* One caller applying single-line movements, and the admin's change and
\* delete views
MovsAdmin ==
    [project : Proyectos, tipo : TIPO_CHOICES, almacen : {"a1"},
     detalles : SeqsUpTo([material : Materiales, cantidad : 1..MaxCant,
                          costo_unitario : {<<Scale>>}], 1)]

InitAdmin == InitCon([mov |-> MaxMovimientos, trasp |-> 0, llamadas |-> MaxLlamadas])

NextAdmin ==
    \/ \E m \in MovsAdmin : CrearMovimiento(m.project, m.tipo, m.almacen, m.detalles)
    \/ \E id \in DOMAIN movimientos :
          LlamarAplicado("p1", Instancia("mov", id, movimientos[id]))
    \/ \E id \in DOMAIN movimientos :
          LlamarMovimiento("p1", Instancia("mov", id, movimientos[id]))
    \/ Detalle("p1")
    \/ FinMovimiento("p1")
    \/ \E id \in DOMAIN movimientos : EliminarMovimiento(id)
    \/ \E r \in kardex : EliminarKardex(r)
    \/ \E id \in DOMAIN movimientos, m \in Materiales :
          AgregarDetalle(id, [material |-> m, cantidad |-> MaxCant,
                              costo_unitario |-> <<Scale>>])
    \/ \E k \in DOMAIN existencia, st \in 0..MaxCant, cp \in {0, Scale} :
          EditarExistencia(k, st, cp)
    \/ \E k \in DOMAIN existencia : EliminarExistencia(k)

SpecAdmin == InitAdmin /\ [][NextAdmin]_vars

\* ------------------------------------------------------------------ C11
RECURSIVE SumaSalidas(_)
SumaSalidas(S) ==
    IF S = {} THEN 0
    ELSE LET r == CHOOSE x \in S : TRUE
         IN  r.cantidad_salida + SumaSalidas(S \ {r})

\* C11: in every reachable state the stock of every Existencia row is the sum
\* of cantidad_entrada minus the sum of cantidad_salida over the Kardex rows of
\* its key.
C11_StockIgualKardex ==
    \A k \in DOMAIN existencia :
        existencia[k].stock =
            SumaEntradas(FilasDeKey(k)) - SumaSalidas(FilasDeKey(k))

\* ------------------------------------------------------------------ C13
\* C13: the Kardex is append-only: every step of the program, the admin's
\* views included, leaves each committed Kardex row in place and unchanged.
C13_SoloAgrega == [][kardex \subseteq kardex']_vars

\* --------------------------------- transfers with several lines and overrides
\* Receipts that stock warehouse a1, and one transfer of one or two lines, each
\* with or without an explicit destination cost (zero)
MovsTraspaso ==
    [project : Proyectos, tipo : {"ENTRADA"}, almacen : {"a1"},
     detalles : SeqsUpTo([material : Materiales, cantidad : 1..MaxCantCosteo,
                          costo_unitario : {<<Scale>>}], 1)]
TraspTraspaso ==
    [project : Proyectos, almacen_origen : Almacenes, almacen_destino : Almacenes,
     detalles : SeqsUpTo([material : Materiales, cantidad : 1..MaxCant,
                          costo_unitario_destino : {<<>>, <<0>>}], MaxLineas)]

InitTraspaso == InitCon([mov |-> MaxMovTraspaso, trasp |-> MaxTraspasos,
                         llamadas |-> MaxLlamadas])

NextTraspaso ==
    \/ \E m \in MovsTraspaso : CrearMovimiento(m.project, m.tipo, m.almacen, m.detalles)
    \/ \E t \in TraspTraspaso :
          CrearTraspaso(t.project, t.almacen_origen, t.almacen_destino, t.detalles)
    \/ \E p \in Procs, id \in DOMAIN movimientos :
          LlamarAplicado(p, Instancia("mov", id, movimientos[id]))
    \/ \E p \in Procs, id \in DOMAIN traspasos :
          LlamarAplicado(p, Instancia("trasp", id, traspasos[id]))
    \/ \E p \in Procs, id \in DOMAIN movimientos :
          LlamarMovimiento(p, Instancia("mov", id, movimientos[id]))
    \/ \E p \in Procs, id \in DOMAIN traspasos :
          LlamarTraspaso(p, Instancia("trasp", id, traspasos[id]))
    \/ \E p \in Procs : Detalle(p)
    \/ \E p \in Procs : FinMovimiento(p)
    \/ \E p \in Procs : FalloConcurrencia(p)
    \/ \E p \in Procs : TraspasoEntrada(p)
    \/ \E p \in Procs : TraspasoFin(p)

SpecTraspaso == InitTraspaso /\ [][NextTraspaso]_vars

\* ----------------------------------------------- a transfer call, by caller
\* lines 213-214: the step that commits caller p's transfer
TraspasoHecho(p) ==
    pc[p] = "detalles" /\ leg[p] = "entrada" /\ pc'[p] = "idle"
        /\ resultado'[p].res = "ok"
\* an exception leaves the atomic block of line 171
TraspasoFallido(p) ==
    pc[p] = "detalles" /\ leg[p] # "none" /\ pc'[p] = "idle"
        /\ resultado'[p].res # "ok"
\* the Traspaso caller p is applying
TraspasoDe(p) == traspasos[obj[p].id]
\* the stock of a key, 0 while it has no Existencia row
StockDe(ex, k) == IF k \in DOMAIN ex THEN ex[k].stock ELSE 0

\* X: the quantity of material m a transfer moves
RECURSIVE CantidadDe(_, _)
CantidadDe(dets, m) ==
    IF dets = <<>> THEN 0
    ELSE (IF Head(dets).material = m THEN Head(dets).cantidad ELSE 0)
            + CantidadDe(Tail(dets), m)

\* ------------------------------------------------------------------ C15
\* C15 as stated: a successful aplicar_traspaso lowers the stock of each
\* material at the source warehouse by exactly the quantity X transferred and
\* raises it at the destination warehouse by exactly X.
C15_ConservaEstricto ==
    [][\A p \in Procs :
          TraspasoHecho(p) =>
             \A m \in Materiales :
                LET t == TraspasoDe(p)
                    X == CantidadDe(t.detalles, m)
                    ko == <<t.project, m, t.almacen_origen>>
                    kd == <<t.project, m, t.almacen_destino>>
                IN  /\ StockDe(existencia', ko) = StockDe(existencia, ko) - X
                    /\ StockDe(existencia', kd) = StockDe(existencia, kd) + X]_vars

\* C15 amended: a successful aplicar_traspaso between two different warehouses
\* lowers the source stock of each material by exactly X and raises the
\* destination stock by exactly X; when origin and destination are the same
\* warehouse the stock is unchanged; no other key changes its stock.
C15_ConservaNeto ==
    [][\A p \in Procs :
          TraspasoHecho(p) =>
             \A m \in Materiales : \A a \in Almacenes :
                LET t == TraspasoDe(p)
                    X == CantidadDe(t.detalles, m)
                    k == <<t.project, m, a>>
                IN  StockDe(existencia', k) =
                        StockDe(existencia, k)
                          - (IF a = t.almacen_origen THEN X ELSE 0)
                          + (IF a = t.almacen_destino THEN X ELSE 0)]_vars

\* A two-line transfer between different warehouses moved two units
C15_Witness ==
    \E t \in DOMAIN traspasos :
        /\ traspasos[t].aplicado
        /\ traspasos[t].almacen_origen = "a1" /\ traspasos[t].almacen_destino = "a2"
        /\ Len(traspasos[t].detalles) = 2
        /\ StockDe(existencia, <<"t1", "m1", "a1">>) = 0
        /\ StockDe(existencia, <<"t1", "m1", "a2">>) = 2

\* ------------------------------------------------------------------ C16
\* C16: when either leg of a transfer fails on any line, the failing step
\* leaves every Existencia row, the Kardex, the Movimiento table (no generated
\* SALIDA or ENTRADA movement) and the Traspaso row (its aplicado included) as
\* they were, and drops everything the transaction had written.
C16_TraspasoFalloNoRetiene ==
    [][\A p \in Procs :
          TraspasoFallido(p) =>
             /\ db' = db
             /\ txEx'[p] = Empty /\ txKdx'[p] = {} /\ txMov'[p] = Empty]_vars

\* A transfer failed with InsufficientStock on its second line, after the
\* first line had issued the only unit of the source
C16_Witness ==
    /\ \E p \in Procs : resultado[p] = Fin("InsufficientStock", 2)
    /\ \A id \in DOMAIN movimientos : movimientos[id].referencia = <<>>
    /\ nextMov > MaxMovTraspaso + 1
    /\ \A r \in kardex : r.tipo = "ENTRADA" /\ r.referencia = <<>>
    /\ StockDe(existencia, <<"t1", "m1", "a1">>) = 1

\* ------------------------------------------------------------------ C18
\* C18: every Kardex row of a transfer's destination leg has as costo_unitario
\* the line's costo_unitario_destino when one is given (zero included), and
\* otherwise the costo_promedio of the source key as the origin leg left it.
C18_CostoDestino ==
    [][\A p \in Procs :
          (EnDetalle(p) /\ leg[p] = "entrada" /\ Paso(p)) =>
             /\ Cardinality(FilasNuevas(p)) = 1
             /\ \A r \in FilasNuevas(p) :
                   LET linea == TraspasoDe(p).detalles[idx[p]]
                       salidas == {x \in txKdx[p] : x.tipo = "SALIDA"
                                                     /\ x.material = linea.material}
                   IN  IF linea.costo_unitario_destino # <<>>
                       THEN r.costo_unitario = linea.costo_unitario_destino[1]
                       ELSE /\ salidas # {}
                            /\ \A x \in salidas :
                                  r.costo_unitario = x.saldo_costo_promedio]_vars

\* One unit went over at the source's average of 1.000000 and one at an
\* override of zero: the source keeps its average, the destination holds two
\* units at 0.500000
C18_Witness ==
    \E t \in DOMAIN traspasos :
        /\ traspasos[t].aplicado
        /\ traspasos[t].almacen_origen = "a1" /\ traspasos[t].almacen_destino = "a2"
        /\ <<"t1", "m1", "a1">> \in DOMAIN existencia
        /\ <<"t1", "m1", "a2">> \in DOMAIN existencia
        /\ existencia[<<"t1", "m1", "a1">>] = [stock |-> 0, costo_promedio |-> Scale]
        /\ existencia[<<"t1", "m1", "a2">>] = [stock |-> 2, costo_promedio |-> Scale \div 2]
        /\ \E r \in kardex : r.almacen = "a2" /\ r.costo_unitario = 0
        /\ \E r \in kardex : r.almacen = "a2" /\ r.costo_unitario = Scale

\* ------------------------------------------------ two transfers that cross
\* Single-line transfers between any two warehouses, applied by two callers;
\* no movement is called directly
InitCruzados == InitCon([mov |-> 0, trasp |-> MaxTraspCruzados,
                         llamadas |-> MaxTraspCruzados])

NextCruzados ==
    \/ \E t \in TraspSpec :
          CrearTraspaso(t.project, t.almacen_origen, t.almacen_destino, t.detalles)
    \/ \E p \in Procs, id \in DOMAIN traspasos :
          LlamarAplicado(p, Instancia("trasp", id, traspasos[id]))
    \/ \E p \in Procs, id \in DOMAIN traspasos :
          LlamarTraspaso(p, Instancia("trasp", id, traspasos[id]))
    \/ \E p \in Procs : Detalle(p)
    \/ \E p \in Procs : FalloConcurrencia(p)
    \/ \E p \in Procs : TraspasoEntrada(p)
    \/ \E p \in Procs : TraspasoFin(p)

SpecCruzados == InitCruzados /\ [][NextCruzados]_vars

\* Movimiento rows a transfer generated (referencia TRASP-<id>)
MovsDeTraspaso(t) == {i \in DOMAIN movimientos : movimientos[i].referencia = <<t>>}

\* ------------------------------------------------------------------ C17
\* C17: a call of aplicar_traspaso on a transfer whose aplicado is already
\* true is a no-op: the step that returns creates no movement and leaves every
\* Existencia row, the Kardex and all pending writes as they were, and no
\* transaction is opened for an applied transfer.
C17_TraspasoAplicadoNoOp ==
    [][\A p \in Procs :
          /\ (resultado'[p].res = "noop" /\ resultado'[p] # resultado[p])
                => (db' = db /\ nextMov' = nextMov /\ nextKdx' = nextKdx
                    /\ txEx' = txEx /\ txKdx' = txKdx /\ txMov' = txMov /\ pc' = pc)
          /\ (pc[p] = "idle" /\ pc'[p] = "detalles" /\ leg'[p] = "salida")
                => ~traspasos[obj'[p].id].aplicado]_vars

\* A second call on an applied transfer has returned: the transfer has its one
\* SALIDA and one ENTRADA movement, each with one Kardex row
C17_Witness ==
    \E p \in Procs : \E t \in DOMAIN traspasos :
        /\ resultado[p].res = "noop"
        /\ traspasos[t].aplicado
        /\ DOMAIN traspasos = {t}
        /\ Cardinality(MovsDeTraspaso(t)) = 2
        /\ Cardinality(kardex) = 2

\* ------------------------------------------------------------------ C19
\* C19: two transfers that cross (A to B and B to A) never reach a state in
\* which each caller holds the row lock of one warehouse's Existencia row and
\* waits for the lock the other holds.
C19_SinEsperaCircular ==
    \A p \in Procs : \A q \in Procs \ {p} :
        ~(/\ EnDetalle(p) /\ leg[p] # "none"
          /\ EnDetalle(q) /\ leg[q] # "none"
          /\ TraspasoDe(p).almacen_origen = TraspasoDe(q).almacen_destino
          /\ TraspasoDe(p).almacen_destino = TraspasoDe(q).almacen_origen
          /\ KeyDe(p) \in DOMAIN txEx[q]
          /\ KeyDe(q) \in DOMAIN txEx[p])

\* ------------------------------------------------------- next_consecutivo
\* Mutant: the value is saved and returned without the increment
SiguienteSinSumar(valor) == valor

\* line 233: c.valor += 1
Siguiente(valor) == valor + 1

\* line 225: unique_together (project, nombre); the index does not compare rows
\* whose project is NULL (line 221)
UnicoAplica(k) == k[1] # SinProyecto

\* Committed rows the lookup of lines 230-232 finds for (project, nombre)
FilasConsecutivo(k) == {r \in consecutivo : r.key = k}

\* The AUTO_INCREMENT id of a row inserted now
NuevoIdConsecutivo ==
    Cardinality(consecutivo)
        + Cardinality({q \in Procs : IF cTx[q] = <<>> THEN FALSE ELSE cTx[q][1].nuevo})
        + 1

\* Calls started so far
LlamadasConsecutivo ==
    Len(devueltos) + Cardinality({q \in Procs : cTx[q] # <<>>})

\* lines 229-232, the row exists: select_for_update() fetches and locks it; the
\* call waits while another transaction holds the row
ConsecutivoGet(p, k) ==
    /\ cTx[p] = <<>>
    /\ LlamadasConsecutivo < MaxConsecutivos
    /\ Cardinality(FilasConsecutivo(k)) = 1
    /\ LET r == CHOOSE x \in FilasConsecutivo(k) : TRUE
       IN  /\ \A q \in Procs \ {p} :
                 IF cTx[q] = <<>> THEN TRUE ELSE cTx[q][1].id # r.id
           /\ cTx' = [cTx EXCEPT ![p] =
                         <<[id |-> r.id, key |-> k, valor |-> r.valor, nuevo |-> FALSE]>>]
    /\ UNCHANGED <<consecutivo, devueltos>>
    /\ UNCHANGED motor

\* lines 229-232, no committed row: the locking read finds nothing to lock and
\* get_or_create inserts the row with valor 0; where the unique index applies
\* the insert waits for an uncommitted insert of the same pair (and then finds
\* the committed row instead)
ConsecutivoCreate(p, k) ==
    /\ cTx[p] = <<>>
    /\ LlamadasConsecutivo < MaxConsecutivos
    /\ FilasConsecutivo(k) = {}
    /\ UnicoAplica(k) =>
          \A q \in Procs \ {p} : IF cTx[q] = <<>> THEN TRUE ELSE cTx[q][1].key # k
    /\ cTx' = [cTx EXCEPT ![p] =
                  <<[id |-> NuevoIdConsecutivo, key |-> k, valor |-> 0, nuevo |-> TRUE]>>]
    /\ UNCHANGED <<consecutivo, devueltos>>
    /\ UNCHANGED motor

\* lines 233-235: increment, save, commit and return the new value
ConsecutivoGuardar(p) ==
    /\ cTx[p] # <<>>
    /\ LET c == cTx[p][1]
       IN  /\ consecutivo' = {r \in consecutivo : r.id # c.id}
                                \cup {[id |-> c.id, key |-> c.key,
                                       valor |-> Siguiente(c.valor)]}
           /\ devueltos' = Append(devueltos,
                                  [key |-> c.key, valor |-> Siguiente(c.valor)])
    /\ cTx' = [cTx EXCEPT ![p] = <<>>]
    /\ UNCHANGED motor

InitConsecutivo == InitCon([mov |-> 0, trasp |-> 0, llamadas |-> 0])

\* One caller: calls one after another
NextConsecutivo ==
    \/ \E k \in ClavesConsecutivo : ConsecutivoGet("p1", k)
    \/ \E k \in ClavesConsecutivo : ConsecutivoCreate("p1", k)
    \/ ConsecutivoGuardar("p1")

SpecConsecutivo == InitConsecutivo /\ [][NextConsecutivo]_vars

\* Two callers: concurrent calls
NextConsecutivoConcurrente ==
    \/ \E p \in Procs, k \in ClavesConsecutivo : ConsecutivoGet(p, k)
    \/ \E p \in Procs, k \in ClavesConsecutivo : ConsecutivoCreate(p, k)
    \/ \E p \in Procs : ConsecutivoGuardar(p)

SpecConsecutivoConcurrente == InitConsecutivo /\ [][NextConsecutivoConcurrente]_vars

\* The values returned for one key, in the order the calls returned
RetornosDe(k) == SelectSeq(devueltos, LAMBDA d : d.key = k)

\* ------------------------------------------------------------------ C20
\* C20: for every (project, nombre) the n-th successful call of
\* next_consecutivo returns n (the row is created at 0 and incremented by 1),
\* the stored valor is the last value returned, and a pair that was never
\* asked for has no row: calls for other pairs leave a counter alone.
C20_Consecutivo ==
    \A k \in ClavesConsecutivo :
        /\ \A i \in 1..Len(RetornosDe(k)) : RetornosDe(k)[i].valor = i
        /\ IF RetornosDe(k) = <<>>
           THEN FilasConsecutivo(k) = {}
           ELSE /\ Cardinality(FilasConsecutivo(k)) = 1
                /\ \A r \in FilasConsecutivo(k) : r.valor = Len(RetornosDe(k))

\* Three calls for one pair and one for another have returned
C20_Witness ==
    /\ Len(RetornosDe(<<"t1", "nota_pedido">>)) = 3
    /\ Len(RetornosDe(<<SinProyecto, "nota_pedido">>)) = 1
    /\ devueltos[2].key = <<SinProyecto, "nota_pedido">>

\* ------------------------------------------------------------------ C21
\* C21: under every interleaving of concurrent next_consecutivo calls for one
\* (project, nombre), the calls that race to create the row included, the
\* values returned are strictly increasing in the order the calls committed:
\* no two calls return the same value.
C21_SinDuplicados ==
    \A i \in 1..Len(devueltos) : \A j \in 1..Len(devueltos) :
        (i < j /\ devueltos[i].key = devueltos[j].key)
            => devueltos[i].valor < devueltos[j].valor

\* a pass of the loop for caller p's current detalle ended, one way or another
Termina(p) == EnDetalle(p) /\ (idx'[p] # idx[p] \/ pc'[p] # pc[p])

\* ------------------------------------------------------------------ C22
\* C22: a line whose cantidad is zero or negative is rejected: the pass of the
\* loop that reaches it raises a ValidationError and leaves Existencia, Kardex
\* and the aplicado flags as they were.
C22_RechazaNoPositiva ==
    [][\A p \in Procs :
          (Termina(p) /\ DetDe(p).cantidad <= 0) =>
             /\ pc'[p] = "idle"
             /\ resultado'[p].res = "ValidationError"
             /\ db' = db]_vars

\* ------------------------------------------------------------------ C27
\* C27: an AJUSTE line with a positive cantidad is applied as a receipt.  With
\* no costo_unitario, or one of exactly zero, the incoming cost is the current
\* costo_promedio: the stock grows by cantidad and costo_promedio is unchanged.
\* With a non-zero costo_unitario that cost enters the weighted average (as
\* stored, to the nearest millionth).  The Kardex row has tipo AJUSTE.
C27_AjustePositivo ==
    [][\A p \in Procs :
          (Termina(p) /\ MovDe(p).tipo = "AJUSTE" /\ DetDe(p).cantidad > 0) =>
             LET st == FilaDe(p).stock
                 cp == FilaDe(p).costo_promedio
                 cant == DetDe(p).cantidad
                 cu == DetDe(p).costo_unitario
                 sinCosto == IF cu = <<>> THEN TRUE ELSE cu[1] = 0
             IN  /\ Paso(p)
                 /\ txEx'[p][KeyDe(p)].stock = st + cant
                 /\ Cardinality(FilasNuevas(p)) = 1
                 /\ \A r \in FilasNuevas(p) :
                       /\ r.tipo = "AJUSTE"
                       /\ r.cantidad_entrada = cant /\ r.cantidad_salida = 0
                       /\ r.saldo_stock = st + cant
                       /\ r.saldo_costo_promedio = txEx'[p][KeyDe(p)].costo_promedio
                       /\ IF sinCosto
                          THEN /\ r.costo_unitario = cp
                               /\ txEx'[p][KeyDe(p)].costo_promedio = cp
                          ELSE /\ r.costo_unitario = cu[1]
                               /\ IF st + cant > 0
                                  THEN 2 * Abs(txEx'[p][KeyDe(p)].costo_promedio * (st + cant)
                                                 - (st * cp + cant * cu[1]))
                                          <= st + cant
                                  ELSE txEx'[p][KeyDe(p)].costo_promedio = cp]_vars

\* An AJUSTE line with an explicit cost of zero was received at the current
\* average of 1.000000, and one with a cost of 1.000000 onto an average of 0
C27_Witness ==
    /\ \E r \in kardex :
          /\ r.tipo = "AJUSTE" /\ r.cantidad_entrada > 0
          /\ movimientos[r.movimiento].detalles[1].costo_unitario = <<0>>
          /\ r.costo_unitario = Scale /\ r.saldo_costo_promedio = Scale
    /\ \E r \in kardex :
          /\ r.tipo = "AJUSTE" /\ r.cantidad_entrada > 0
          /\ movimientos[r.movimiento].detalles[1].costo_unitario = <<Scale>>
          /\ r.saldo_costo_promedio = Scale

\* ------------------------------------------------------------------ C28
\* C28: with every costo_unitario of a line >= 0, costo_promedio of every
\* Existencia row and saldo_costo_promedio of every Kardex row are >= 0 in
\* every reachable state, whatever ALLOW_STOCK_NEGATIVE is.
C28_CostoNoNegativo ==
    /\ \A k \in DOMAIN existencia : existencia[k].costo_promedio >= 0
    /\ \A r \in kardex : r.saldo_costo_promedio >= 0

SumaAlmacenes(ex, t, m) ==
    StockDe(ex, <<t, m, "a1">>) + StockDe(ex, <<t, m, "a2">>)

\* C29: an aplicar_traspaso that succeeds leaves the stock of every material
\* of the project, summed over all warehouses, as it was (transfers inside one
\* warehouse and transfers of several lines of one material included), and so
\* does one that fails.
C29_TotalConservado ==
    [][\A p \in Procs :
          (TraspasoHecho(p) \/ TraspasoFallido(p)) =>
             \A t \in Proyectos : \A m \in Materiales :
                SumaAlmacenes(existencia', t, m) = SumaAlmacenes(existencia, t, m)]_vars

\* A two-line transfer from a1 to a2 and nothing else moved the two units
\* received at a1
C29_Witness ==
    \E t \in DOMAIN traspasos :
        /\ traspasos[t].aplicado
        /\ traspasos[t].almacen_origen # traspasos[t].almacen_destino
        /\ Len(traspasos[t].detalles) = 2
        /\ Cardinality(MovsDeTraspaso(t)) = 2
        /\ SumaAlmacenes(existencia, "t1", "m1") = 2
        /\ StockDe(existencia, <<"t1", "m1", traspasos[t].almacen_destino>>) = 2

\* ------------------------------------------------------------------ C24
\* One caller at a time: receipts at a1 and one transfer, each call repeated
\* after it failed
NextReintento ==
    \/ \E m \in MovsTraspaso : CrearMovimiento(m.project, m.tipo, m.almacen, m.detalles)
    \/ \E t \in TraspTraspaso :
          CrearTraspaso(t.project, t.almacen_origen, t.almacen_destino, t.detalles)
    \/ \E id \in DOMAIN movimientos :
          LlamarMovimiento("p1", Instancia("mov", id, movimientos[id]))
    \/ \E id \in DOMAIN traspasos :
          LlamarTraspaso("p1", Instancia("trasp", id, traspasos[id]))
    \/ Detalle("p1")
    \/ FinMovimiento("p1")
    \/ TraspasoEntrada("p1")
    \/ TraspasoFin("p1")

InitReintento == InitCon([mov |-> MaxMovimientos, trasp |-> MaxTraspasos,
                          llamadas |-> MaxLlamadasReintento])

SpecReintento == InitReintento /\ [][NextReintento]_vars

\* the movements entered by hand that are applied
Directos == {i \in DOMAIN movimientos :
                movimientos[i].referencia = <<>> /\ movimientos[i].aplicado}

\* the quantity of material m the applied hand-entered movements of S brought
\* to (or took from) warehouse a of project t
RECURSIVE NetoDirecto(_, _, _, _)
NetoDirecto(S, t, m, a) ==
    IF S = {} THEN 0
    ELSE LET i == CHOOSE x \in S : TRUE
             mv == movimientos[i]
             X == IF mv.project = t /\ mv.almacen = a
                  THEN CantidadDe(mv.detalles, m) ELSE 0
         IN  (IF mv.tipo = "SALIDA" THEN 0 - X ELSE X)
                + NetoDirecto(S \ {i}, t, m, a)

\* the quantity of material m the applied transfers of S brought to (or took
\* from) warehouse a of project t
RECURSIVE NetoTraspasos(_, _, _, _)
NetoTraspasos(S, t, m, a) ==
    IF S = {} THEN 0
    ELSE LET i == CHOOSE x \in S : TRUE
             tr == traspasos[i]
             X == IF tr.project = t /\ tr.aplicado
                  THEN CantidadDe(tr.detalles, m) ELSE 0
         IN  (IF a = tr.almacen_destino THEN X ELSE 0)
                - (IF a = tr.almacen_origen THEN X ELSE 0)
                + NetoTraspasos(S \ {i}, t, m, a)

C23_AplicadoFiel ==
    /\ [][/\ \A i \in DOMAIN movimientos \cap DOMAIN movimientos' :
                movimientos[i].aplicado => movimientos'[i].aplicado
          /\ \A i \in DOMAIN traspasos \cap DOMAIN traspasos' :
                traspasos[i].aplicado => traspasos'[i].aplicado]_vars
    /\ [](/\ \A i \in DOMAIN movimientos :
                movimientos[i].aplicado =>
                    Cardinality(FilasDeMov(i)) >= Len(movimientos[i].detalles)
          /\ \A i \in DOMAIN traspasos :
                traspasos[i].aplicado =>
                    /\ Cardinality(MovsDeTraspaso(i)) >= 2
                    /\ \A j \in MovsDeTraspaso(i) : movimientos[j].aplicado)

\* ------------------------------------------------------------------ C25
\* the keys the lines of applied movements refer to
ClavesAplicadas ==
    UNION {{Key(movimientos[i], movimientos[i].detalles[j]) :
               j \in DOMAIN movimientos[i].detalles} :
           i \in {x \in DOMAIN movimientos : movimientos[x].aplicado}}

\* C25: an Existencia row that applied movements refer to is changed or
\* deleted only by the commit of a successful call of the engine; no other
\* step of the program, the admin views of Existencia included, touches it.
C25_SoloElMotor ==
    [][\A k \in ClavesAplicadas \cap DOMAIN existencia :
          (k \notin DOMAIN existencia' \/ existencia'[k] # existencia[k]) =>
             \E p \in Procs : /\ pc[p] = "detalles" /\ pc'[p] = "idle"
                              /\ resultado'[p].res = "ok"]_vars

\* ------------------------------------------------------------------ C26
\* Two projects, two materials, two warehouses: movements of one or two lines
ProyectosMarco == {"t1", "t2"}
MaterialesMarco == {"m1", "m2"}

MovsMarco ==
    [project : ProyectosMarco, tipo : {"ENTRADA", "SALIDA"}, almacen : Almacenes,
     detalles : SeqsUpTo([material : MaterialesMarco, cantidad : {MaxCant},
                          costo_unitario : {<<Scale>>}], MaxLineas)]

InitMarco == InitCon([mov |-> MaxMovimientos, trasp |-> 0, llamadas |-> MaxMovimientos])

NextMarco ==
    \/ \E m \in MovsMarco : CrearMovimiento(m.project, m.tipo, m.almacen, m.detalles)
    \/ \E p \in Procs, id \in DOMAIN movimientos :
          LlamarMovimiento(p, Instancia("mov", id, movimientos[id]))
    \/ \E p \in Procs : Detalle(p)
    \/ \E p \in Procs : FinMovimiento(p)
    \/ \E p \in Procs : FalloConcurrencia(p)

SpecMarco == InitMarco /\ [][NextMarco]_vars

\* every (project, material, almacen) of this specification
ClavesMarco == ProyectosMarco \X MaterialesMarco \X Almacenes

\* the keys (movement project, material of a line, movement almacen) of mov
ClavesDe(mov) ==
    {<<mov.project, mov.detalles[j].material, mov.almacen>> : j \in DOMAIN mov.detalles}

\* the Existencia row of key k in table ex, if any
FilaEn(ex, k) == IF k \in DOMAIN ex THEN <<ex[k]>> ELSE <<>>

\* the Kardex rows of key k in table kdx
FilasDeKeyEn(kdx, k) == {r \in kdx : <<r.project, r.material, r.almacen>> = k}

\* Movement id applied on its own, line by line, to the tables s (the Kardex
\* rows without their ids), up to its n-th line
RECURSIVE Plegar(_, _, _)
Plegar(s, id, n) ==
    IF n = 0 THEN s
    ELSE LET prev == Plegar(s, id, n - 1)
             mov == movimientos[id]
             det == mov.detalles[n]
             k == <<mov.project, det.material, mov.almacen>>
             fila == IF k \in DOMAIN prev.ex THEN prev.ex[k] ELSE FilaNueva
             st == fila.stock
             cp == fila.costo_promedio
             cant == det.cantidad
             costo_in == CostoIn(mov.tipo, cant, det.costo_unitario, cp)
         IN  IF TipoEfectivo(mov.tipo, cant, det.costo_unitario) = "ENTRADA"
             THEN [ex |-> (k :> [stock |-> st + cant,
                                 costo_promedio |-> NuevoCp(st, cp, cant, costo_in)])
                          @@ prev.ex,
                   kdx |-> prev.kdx \cup
                          {KardexRow(0, mov, id, det, cant, 0, costo_in, st + cant,
                                     NuevoCp(st, cp, cant, costo_in))}]
             ELSE [ex |-> (k :> [stock |-> st - cant, costo_promedio |-> cp])
                          @@ prev.ex,
                   kdx |-> prev.kdx \cup
                          {KardexRow(0, mov, id, det, 0, cant, cp, st - cant, cp)}]

\* movement i, then movement j, applied to empty tables
EnOrden(i, j) ==
    Plegar(Plegar([ex |-> Empty, kdx |-> {}], i, Len(movimientos[i].detalles)),
           j, Len(movimientos[j].detalles))

====
